---- MODULE Spec2Model ----
(***************************************************************************)
(* A model of TkLoguru (src/tkloguru/__init__.py): the LoguruWidget, its   *)
(* queue hand-off between producer threads and the Tk poll loop, the text  *)
(* buffer with its max_lines trim, and the loguru / standard-logging       *)
(* registration done by setup_logger and set_logging_level.                *)
(***************************************************************************)
EXTENDS Integers, Sequences, FiniteSets, TLC

(***************************************************************************)
(* Bounds of the model.                                                    *)
(***************************************************************************)
\* Records emitted in one behaviour (all threads together).
MaxRecords == 3
\* Lines a message text may span (1 + the number of "\n" in it).
MaxMsgLines == 2
\* The constructor argument max_lines ranges over 1..MaxMaxLines.
MaxMaxLines == 2
\* pack/grid/place calls made on one widget in one behaviour.
MaxPlacements == 2
\* Intercept handlers the root logger may hold (setup_logger calls that add one).
MaxRootHandlers == 2
\* Handlers other than a widget's sink registered with loguru's logger.
MaxOtherHandlers == 2
\* Invocations of the example operation change_log_level.
MaxLevelChanges == 14

\* Producer threads.
Threads == {"t1", "t2"}
\* The widgets a process may construct.
WidgetA == "A"
WidgetB == "B"

(***************************************************************************)
(* Levels: LEVELS and LEVEL_NO_TO_NAME of the source, and the level        *)
(* numbers of the standard logging module.                                 *)
(***************************************************************************)
LEVELS == <<"TRACE", "DEBUG", "INFO", "SUCCESS", "WARNING", "ERROR", "CRITICAL">>

LevelNames == {LEVELS[i] : i \in 1..Len(LEVELS)}

LEVEL_NO_TO_NAME ==
    [n \in {5, 10, 20, 25, 30, 40, 50} |->
        CASE n = 5 -> "TRACE" [] n = 10 -> "DEBUG" [] n = 20 -> "INFO"
          [] n = 25 -> "SUCCESS" [] n = 30 -> "WARNING" [] n = 40 -> "ERROR"
          [] OTHER -> "CRITICAL"]

\* The number of a level name (the inverse of LEVEL_NO_TO_NAME).
LevelNo(name) == CHOOSE n \in DOMAIN LEVEL_NO_TO_NAME : LEVEL_NO_TO_NAME[n] = name

\* The level names of the standard logging module (a subset of loguru's).
StdLevelNames == {"DEBUG", "INFO", "WARNING", "ERROR", "CRITICAL"}

\* The levels the producers of the poll-loop specification emit at.
EmitLevels == {"INFO", "CRITICAL"}
\* The levels the producer of the rendering specification emits at.
RenderLevels == {"DEBUG", "INFO", "CRITICAL"}

(***************************************************************************)
(* Colors.  A color of log_colors is a string (foreground only) or a       *)
(* (foreground, background) tuple.                                         *)
(***************************************************************************)
StrColor(fg) == [tuple |-> FALSE, fg |-> fg, bg |-> ""]
TupleColor(fg, bg) == [tuple |-> TRUE, fg |-> fg, bg |-> bg]

\* self.log_colors as __init__ sets it.
DefaultLogColors ==
    [l \in LevelNames |->
        CASE l = "TRACE" -> StrColor("#999999")
          [] l = "DEBUG" -> StrColor("#4a4a4a")
          [] l = "INFO" -> StrColor("#3498db")
          [] l = "SUCCESS" -> StrColor("#2ecc71")
          [] l = "WARNING" -> StrColor("#f39c12")
          [] l = "ERROR" -> StrColor("#e74c3c")
          [] OTHER -> TupleColor("#ffffff", "#c0392b")]

\* The colors set_color is called with in the model.
NewColors == {StrColor("#111111"), TupleColor("#eeeeee", "#222222")}
\* The levels set_color is called with in the model.
ColorLevels == {"CRITICAL"}

ColorModes == {"level", "message", "full"}

VARIABLES
    queue,             \* w -> self.queue: the records put and not yet got
    text,              \* w -> self.text: the newline-terminated lines it holds
    tags,              \* w -> the Tk tag configuration of self.text, per level
    pc,                \* w -> where check_queue is: "idle" or "drain"
    timer,             \* w -> number of pending after(100, check_queue) timers
    isDestroyed,       \* w -> self._is_destroyed
    max_lines,         \* w -> self.max_lines
    color_mode,        \* w -> self.color_mode
    log_colors,        \* w -> self.log_colors
    layout_manager,    \* w -> self._layout_manager ("None", "pack", "grid")
    intercept_logging, \* w -> self.intercept_logging
    text_state,        \* w -> the state option of self.text ("disabled", "normal")
    malformed,         \* w -> the records put on self.queue that lack a field
    handlers,          \* loguru's handlers, in registration order
    rootHandlers,      \* handlers of logging.getLogger(), in registration order
    rootLevel,         \* level of logging.getLogger()
    enqueued,          \* history: w -> every record put on w's queue, in order
    rendered,          \* history: w -> every record update_widget was given
    emitted,           \* history: thread -> number of records it has emitted
    lastEmitted,       \* history: the record emitted last through a logger
    placements,        \* history: w -> the pack/grid/place calls made, in order
    layoutCalls,       \* history: w -> number of _configure_layout layouts done
    installed,         \* history: w -> setup_logger(w) has been called
    cycle,             \* history: w -> records rendered before, plus queued at, the start of the running check_queue
    lastConfigured,    \* history: the widget of the last setup_logger / set_logging_level call
    levelTrail         \* history: the level read at start-up, then each level change_log_level set

widgetVars == <<queue, text, tags, pc, timer, isDestroyed, max_lines, color_mode,
                log_colors, layout_manager, intercept_logging, text_state, malformed>>
loggerVars == <<handlers, rootHandlers, rootLevel>>
historyVars == <<enqueued, rendered, emitted, lastEmitted, placements, layoutCalls,
                 installed, cycle, lastConfigured, levelTrail>>
\* The history variables check_queue's entry leaves alone.
historyButCycle == <<enqueued, rendered, emitted, lastEmitted, placements, layoutCalls,
                     installed, lastConfigured, levelTrail>>
\* The history variables setup_logger and set_logging_level leave alone.
historyButConfigured == <<enqueued, rendered, emitted, lastEmitted, placements, layoutCalls,
                          cycle, levelTrail>>
vars == <<widgetVars, loggerVars, historyVars>>

\* The widgets that have been constructed.
Widgets == DOMAIN queue

(***************************************************************************)
(* Records and the pure parts of the widget's methods.                     *)
(***************************************************************************)
\* The dict sink() and LoggingInterceptHandler.emit() put on the queue.  The
\* time is the pair (thread, seq): the seq-th record its thread emitted; the
\* message text is kept as the number of lines it spans.
Record(t, s, l, n) == [thread |-> t, seq |-> s, level |-> l, lines |-> n]

NoEmission == [rec |-> Record("none", 0, "NONE", 0), via |-> "none"]

\* A put at the head of the queue (a LIFO queue).
SinkPut_Lifo(q, rec) == <<rec>> \o q

\* A put that drops the record when the queue already holds one.
SinkPut_DropWhenBusy(q, rec) == IF q # <<>> THEN q ELSE Append(q, rec)

\* sink(): self.queue.put({...}) appends one record to the tail of the queue.
SinkPut(q, rec) == Append(q, rec)

\* update_tag_colors(): tag_configure per level.  A tuple sets foreground and
\* background; a string sets the foreground only and leaves the tag's
\* background option as it was.
update_tag_colors(tg, colors) ==
    [l \in LevelNames |->
        IF colors[l].tuple
        THEN [fg |-> colors[l].fg, bg |-> colors[l].bg]
        ELSE [fg |-> colors[l].fg, bg |-> tg[l].bg]]

\* A fresh Text widget's tags carry no options.
NoTags == [l \in LevelNames |-> [fg |-> "", bg |-> ""]]

\* The part of the k-th line of a rendered record that carries the level tag.
TaggedSpan(mode, k) ==
    IF mode = "full" THEN "all"
    ELSE IF mode = "message" THEN (IF k = 1 THEN "message" ELSE "all")
    ELSE (IF k = 1 THEN "level" ELSE "none")

\* Characters are kept as tokens: c is the text of the token (or the name of
\* the field it stands for) and n the number that goes with it.
Tok(c, n) == [c |-> c, n |-> n]

Newline == Tok("\n", 0)
Separator == Tok(" | ", 0)

\* The width of the level field in the f-strings, `{level:8}`.
FieldWidth == 8

\* len(level) of the level names.
LevelLen(l) ==
    CASE l \in {"INFO"} -> 4
      [] l \in {"TRACE", "DEBUG", "ERROR"} -> 5
      [] l \in {"SUCCESS", "WARNING"} -> 7
      [] OTHER -> 8

\* record["time"].strftime("%Y-%m-%d %H:%M:%S"): the text of the record's time.
time_str(rec) == <<Tok("time", rec.seq)>>

\* f"{level:8}": the level name, then spaces up to the field width (a name
\* at least as wide as the field is not padded).
LevelField(l) ==
    <<Tok(l, 0)>> \o
    (IF LevelLen(l) < FieldWidth THEN <<Tok(" ", FieldWidth - LevelLen(l))>> ELSE <<>>)

\* The message: its lines with a newline between them.
RECURSIVE MessageText(_)
MessageText(n) ==
    IF n = 1 THEN <<Tok("line", 1)>>
    ELSE MessageText(n - 1) \o <<Newline, Tok("line", n)>>

\* text.insert(tk.END, chars, tag): every character carries the tag.
Insert(chars, tag) == [i \in 1..Len(chars) |-> [tok |-> chars[i], tag |-> tag]]

\* A 'level' branch that inserts the level name without its padding.
Inserts_LevelUnpadded(mode, rec) ==
    IF mode = "full"
    THEN Insert(time_str(rec) \o <<Separator>> \o LevelField(rec.level) \o <<Separator>>
                \o MessageText(rec.lines) \o <<Newline>>, rec.level)
    ELSE IF mode = "message"
    THEN Insert(time_str(rec) \o <<Separator>> \o LevelField(rec.level) \o <<Separator>>, "")
         \o Insert(MessageText(rec.lines) \o <<Newline>>, rec.level)
    ELSE Insert(time_str(rec) \o <<Separator>>, "")
         \o Insert(<<Tok(rec.level, 0)>>, rec.level)
         \o Insert(<<Separator>> \o MessageText(rec.lines) \o <<Newline>>, "")

\* The text.insert calls of update_widget under the three branches on
\* self.color_mode, in order: the characters appended to the text.
Inserts(mode, rec) ==
    IF mode = "full"
    THEN Insert(time_str(rec) \o <<Separator>> \o LevelField(rec.level) \o <<Separator>>
                \o MessageText(rec.lines) \o <<Newline>>, rec.level)
    ELSE IF mode = "message"
    THEN Insert(time_str(rec) \o <<Separator>> \o LevelField(rec.level) \o <<Separator>>, "")
         \o Insert(MessageText(rec.lines) \o <<Newline>>, rec.level)
    ELSE Insert(time_str(rec) \o <<Separator>>, "")
         \o Insert(LevelField(rec.level), rec.level)
         \o Insert(<<Separator>> \o MessageText(rec.lines) \o <<Newline>>, "")

\* The position of the k-th newline of a run of characters.
NewlineAt(chars, k) ==
    CHOOSE i \in 1..Len(chars) :
        /\ chars[i].tok = Newline
        /\ Cardinality({j \in 1..i : chars[j].tok = Newline}) = k

\* The k-th line of a run of characters, its newline included.
LineOf(chars, k) ==
    SubSeq(chars, IF k = 1 THEN 1 ELSE NewlineAt(chars, k - 1) + 1, NewlineAt(chars, k))

\* The text.insert calls of update_widget: the record's text ends in "\n", so
\* it adds one newline-terminated line per line of the message.
TextInsert(txt, mode, rec) ==
    txt \o [k \in 1..rec.lines |->
               [rec |-> rec, part |-> k, span |-> TaggedSpan(mode, k), tag |-> rec.level,
                chars |-> LineOf(Inserts(mode, rec), k)]]

\* int(self.text.index('end-1c').split('.')[0]): the line of the Text widget's
\* final newline, one more than the number of newline-terminated lines.
LineIndex(txt) == Len(txt) + 1

\* if ... > self.max_lines: self.text.delete('1.0', '2.0')
Trim(txt, max) == IF LineIndex(txt) > max THEN Tail(txt) ELSE txt

update_widget(txt, mode, max, rec) == Trim(TextInsert(txt, mode, rec), max)

(***************************************************************************)
(* Initial states: the state after LoguruWidget.__init__ of each widget,   *)
(* with loguru and the standard logging module as the interpreter starts   *)
(* them (loguru's stderr handler at DEBUG, the root logger at WARNING).    *)
(***************************************************************************)
InitLogger ==
    /\ handlers = <<[sink |-> "stderr", levelno |-> LevelNo("DEBUG")]>>
    /\ rootHandlers = <<>>
    /\ rootLevel = LevelNo("WARNING")

\* No check_queue call is running.
NoCycle == 0

InitHistory(ws) ==
    /\ enqueued = [w \in ws |-> <<>>]
    /\ rendered = [w \in ws |-> <<>>]
    /\ emitted = [t \in Threads |-> 0]
    /\ lastEmitted = NoEmission
    /\ placements = [w \in ws |-> <<>>]
    /\ layoutCalls = [w \in ws |-> 0]
    /\ installed = [w \in ws |-> FALSE]
    /\ cycle = [w \in ws |-> NoCycle]
    /\ lastConfigured = "none"
    /\ levelTrail = <<>>

InitWidgets(ws, modes, intercepts) ==
    /\ queue = [w \in ws |-> <<>>]
    /\ text = [w \in ws |-> <<>>]
    /\ tags = [w \in ws |-> update_tag_colors(NoTags, DefaultLogColors)]
    /\ pc = [w \in ws |-> "idle"]
    /\ timer = [w \in ws |-> 1]
    /\ isDestroyed = [w \in ws |-> FALSE]
    /\ max_lines \in [ws -> 1..MaxMaxLines]
    /\ color_mode \in [ws -> modes]
    /\ log_colors = [w \in ws |-> DefaultLogColors]
    /\ layout_manager = [w \in ws |-> "None"]
    /\ intercept_logging \in [ws -> intercepts]
    /\ text_state = [w \in ws |-> "disabled"]
    /\ malformed = [w \in ws |-> {}]

\* One widget, constructed with the default color_mode and intercept_logging.
Init ==
    /\ InitWidgets({WidgetA}, {"level"}, {FALSE})
    /\ InitLogger
    /\ InitHistory({WidgetA})

(***************************************************************************)
(* The producer side: loguru calls sink() on the emitting thread.          *)
(***************************************************************************)
RECURSIVE SumOver(_, _)
SumOver(f, S) == IF S = {} THEN 0 ELSE LET x == CHOOSE y \in S : TRUE IN f[x] + SumOver(f, S \ {x})

TotalEmitted == SumOver(emitted, Threads)

Sink(w, t, l, n) ==
    /\ TotalEmitted < MaxRecords
    /\ LET rec == Record(t, emitted[t] + 1, l, n) IN
        /\ queue' = [queue EXCEPT ![w] = SinkPut(@, rec)]
        /\ enqueued' = [enqueued EXCEPT ![w] = Append(@, rec)]
    /\ emitted' = [emitted EXCEPT ![t] = @ + 1]
    /\ UNCHANGED <<text, tags, pc, timer, isDestroyed, max_lines, color_mode,
                   log_colors, layout_manager, intercept_logging, text_state, malformed>>
    /\ UNCHANGED <<loggerVars, rendered, lastEmitted, placements, layoutCalls, installed, cycle, lastConfigured, levelTrail>>

(***************************************************************************)
(* The poll loop: check_queue runs on the UI thread when its timer fires.  *)
(* Producers (and a destroy() from another thread) interleave between its  *)
(* steps; the UI thread runs one callback at a time.                       *)
(***************************************************************************)
UiIdle == \A v \in Widgets : pc[v] = "idle"

\* What is noted of a check_queue call: the number of records rendered before
\* it plus the number of records in the queue when it began.
CycleStart(q, done) == Len(done) + Len(q)

\* An entry that does not look at the flag.
AfterEntry_NoCheck(destroyed) == "drain"

\* `if self._is_destroyed: return`: where check_queue is after its entry.
AfterEntry(destroyed) == IF destroyed THEN "idle" ELSE "drain"

\* The timer fires: `if self._is_destroyed: return`, else enter the loop.
CheckQueueBegin(w) ==
    /\ UiIdle
    /\ timer[w] > 0
    /\ timer' = [timer EXCEPT ![w] = @ - 1]
    /\ pc' = [pc EXCEPT ![w] = AfterEntry(isDestroyed[w])]
    /\ cycle' = [cycle EXCEPT ![w] = IF isDestroyed[w] THEN NoCycle
                                      ELSE CycleStart(queue[w], rendered[w])]
    /\ UNCHANGED <<queue, text, tags, isDestroyed, max_lines, color_mode,
                   log_colors, layout_manager, intercept_logging, text_state, malformed>>
    /\ UNCHANGED <<loggerVars, historyButCycle>>

\* self.queue.get_nowait(): the head of the queue is removed.
QueueAfterGet(q) == Tail(q)

\* One turn of the loop: get_nowait() returns a record, update_widget(record)
\* renders it and leaves the text read-only (lines 131 and 151).
CheckQueueRender(w) ==
    /\ pc[w] = "drain"
    /\ queue[w] # <<>>
    /\ Head(queue[w]) \notin malformed[w]
    /\ LET record == Head(queue[w]) IN
        /\ queue' = [queue EXCEPT ![w] = QueueAfterGet(@)]
        /\ text' = [text EXCEPT ![w] = update_widget(@, color_mode[w], max_lines[w], record)]
        /\ rendered' = [rendered EXCEPT ![w] = Append(@, record)]
    /\ text_state' = [text_state EXCEPT ![w] = "disabled"]
    /\ UNCHANGED <<tags, pc, timer, isDestroyed, max_lines, color_mode,
                   log_colors, layout_manager, intercept_logging, malformed>>
    /\ UNCHANGED <<loggerVars, enqueued, emitted, lastEmitted, placements, layoutCalls,
                   installed, cycle, lastConfigured, levelTrail>>

\* A finally clause that never reschedules.
Reschedule_Never(n, destroyed) == n

\* A finally clause that reschedules without looking at the flag.
Reschedule_Always(n, destroyed) == n + 1

\* A finally clause that arms two timers.
Reschedule_Twice(n, destroyed) == IF destroyed THEN n ELSE n + 2

\* The timers pending after the finally clause:
\* `if not self._is_destroyed: self.after(100, self.check_queue)`.
Reschedule(n, destroyed) == IF destroyed THEN n ELSE n + 1

\* get_nowait() raises queue.Empty: the loop ends and the finally clause runs.
CheckQueueEnd(w) ==
    /\ pc[w] = "drain"
    /\ queue[w] = <<>>
    /\ pc' = [pc EXCEPT ![w] = "idle"]
    /\ timer' = [timer EXCEPT ![w] = Reschedule(@, isDestroyed[w])]
    /\ cycle' = [cycle EXCEPT ![w] = NoCycle]
    /\ UNCHANGED <<queue, text, tags, isDestroyed, max_lines, color_mode,
                   log_colors, layout_manager, intercept_logging, text_state, malformed>>
    /\ UNCHANGED <<loggerVars, historyButCycle>>

\* destroy(): self._is_destroyed = True.
Destroy(w) ==
    /\ ~isDestroyed[w]
    /\ isDestroyed' = [isDestroyed EXCEPT ![w] = TRUE]
    /\ UNCHANGED <<queue, text, tags, pc, timer, max_lines, color_mode,
                   log_colors, layout_manager, intercept_logging, text_state, malformed>>
    /\ UNCHANGED <<loggerVars, historyVars>>

CheckQueue(w) == CheckQueueBegin(w) \/ CheckQueueRender(w) \/ CheckQueueEnd(w)

\* The producers of the poll-loop specification: several threads, single-line
\* messages.
Produce == \E w \in Widgets, t \in Threads, l \in EmitLevels : Sink(w, t, l, 1)

Poll == \E w \in Widgets : CheckQueue(w)

DestroyWidget == \E w \in Widgets : Destroy(w)

Next == Produce \/ Poll \/ DestroyWidget

\* The Tk main loop runs every callback that is due: a pending timer fires and
\* a running check_queue goes on to its end.
Spec == Init /\ [][Next]_vars /\ WF_vars(Poll)

(***************************************************************************)
(* Rendering errors.  self.queue is a public attribute (the intercept      *)
(* handler puts on it from outside the class) and update_widget reads      *)
(* record["time"], record["level"] and record["message"] without a check:  *)
(* a dict put on the queue without its "message" key makes update_widget   *)
(* raise KeyError at line 135, after line 131 and before any insert.       *)
(* check_queue catches queue.Empty only, so the exception leaves the loop, *)
(* runs the finally clause and goes on to tkinter's callback wrapper,      *)
(* which reports it and returns to the main loop.                          *)
(***************************************************************************)
\* widget.queue.put(record) with a record that lacks a key.
PutMalformed(w, t, l) ==
    /\ TotalEmitted < MaxRecords
    /\ LET rec == Record(t, emitted[t] + 1, l, 1) IN
        /\ queue' = [queue EXCEPT ![w] = SinkPut(@, rec)]
        /\ enqueued' = [enqueued EXCEPT ![w] = Append(@, rec)]
        /\ malformed' = [malformed EXCEPT ![w] = @ \cup {rec}]
    /\ emitted' = [emitted EXCEPT ![t] = @ + 1]
    /\ UNCHANGED <<text, tags, pc, timer, isDestroyed, max_lines, color_mode,
                   log_colors, layout_manager, intercept_logging, text_state>>
    /\ UNCHANGED <<loggerVars, rendered, lastEmitted, placements, layoutCalls, installed,
                   cycle, lastConfigured, levelTrail>>

\* An exception that leaves check_queue without running its finally clause.
RescheduleOnError_Skipped(n, destroyed) == n

\* The finally clause runs as well when update_widget raises.
RescheduleOnError(n, destroyed) == Reschedule(n, destroyed)

\* The state option of self.text when update_widget raises after line 131:
\* line 151 is not reached.
StateAfterError == "normal"

\* One turn of the loop that fails: get_nowait() returns a record and
\* update_widget(record) raises; the finally clause runs and check_queue ends.
CheckQueueRenderFails(w) ==
    /\ pc[w] = "drain"
    /\ queue[w] # <<>>
    /\ Head(queue[w]) \in malformed[w]
    /\ queue' = [queue EXCEPT ![w] = QueueAfterGet(@)]
    /\ text_state' = [text_state EXCEPT ![w] = StateAfterError]
    /\ pc' = [pc EXCEPT ![w] = "idle"]
    /\ timer' = [timer EXCEPT ![w] = RescheduleOnError(@, isDestroyed[w])]
    /\ cycle' = [cycle EXCEPT ![w] = NoCycle]
    /\ UNCHANGED <<text, tags, isDestroyed, max_lines, color_mode,
                   log_colors, layout_manager, intercept_logging, malformed>>
    /\ UNCHANGED <<loggerVars, historyButCycle>>

\* The levels the producers of the fault specification emit at.
FaultLevels == {"INFO"}

ProduceFault == \E w \in Widgets, l \in FaultLevels : Sink(w, "t1", l, 1)

ProduceMalformed == \E w \in Widgets, l \in FaultLevels : PutMalformed(w, "t2", l)

PollFault == \E w \in Widgets : CheckQueue(w) \/ CheckQueueRenderFails(w)

InitFault == Init

NextFault == ProduceFault \/ ProduceMalformed \/ PollFault \/ DestroyWidget

FaultSpec == InitFault /\ [][NextFault]_vars /\ WF_vars(PollFault)

(***************************************************************************)
(* The UI-side mutators, called from callbacks on the UI thread of a live  *)
(* widget.                                                                 *)
(***************************************************************************)
\* set_color(level, color): self.log_colors[level] = color; update_tag_colors().
SetColor(w, l, c) ==
    /\ UiIdle
    /\ ~isDestroyed[w]
    /\ log_colors[w][l] # c
    /\ log_colors' = [log_colors EXCEPT ![w][l] = c]
    /\ tags' = [tags EXCEPT ![w] = update_tag_colors(@, log_colors'[w])]
    /\ UNCHANGED <<queue, text, pc, timer, isDestroyed, max_lines, color_mode,
                   layout_manager, intercept_logging, text_state, malformed>>
    /\ UNCHANGED <<loggerVars, historyVars>>

\* log_widget.color_mode = new_mode (change_color_mode of the examples).
SetColorMode(w, m) ==
    /\ UiIdle
    /\ ~isDestroyed[w]
    /\ color_mode[w] # m
    /\ color_mode' = [color_mode EXCEPT ![w] = m]
    /\ UNCHANGED <<queue, text, tags, pc, timer, isDestroyed, max_lines,
                   log_colors, layout_manager, intercept_logging, text_state, malformed>>
    /\ UNCHANGED <<loggerVars, historyVars>>

\* A placement method that does not look at _layout_manager.
NeedsLayout_Always(current) == TRUE

\* `if self._layout_manager is None` of pack(), grid() and place().
NeedsLayout(current) == current = "None"

\* The strategy each placement method assigns: "pack" in pack() and place(),
\* "grid" in grid().
PlacementStrategy(call) == IF call = "grid" THEN "grid" ELSE "pack"

\* pack() / grid() / place(): the first one sets _layout_manager and runs
\* _configure_layout(), which lays the children out for "pack" and for "grid".
Placement(w, call) ==
    /\ UiIdle
    /\ ~isDestroyed[w]
    /\ Len(placements[w]) < MaxPlacements
    /\ layout_manager' = [layout_manager EXCEPT ![w] =
                             IF NeedsLayout(@) THEN PlacementStrategy(call) ELSE @]
    /\ layoutCalls' = [layoutCalls EXCEPT ![w] =
                             IF NeedsLayout(layout_manager[w]) THEN @ + 1 ELSE @]
    /\ placements' = [placements EXCEPT ![w] = Append(@, call)]
    /\ UNCHANGED <<queue, text, tags, pc, timer, isDestroyed, max_lines, color_mode,
                   log_colors, intercept_logging, text_state, malformed>>
    /\ UNCHANGED <<loggerVars, enqueued, rendered, emitted, lastEmitted, installed, cycle, lastConfigured, levelTrail>>

Pack == \E w \in Widgets : Placement(w, "pack")

Grid == \E w \in Widgets : Placement(w, "grid")

Place == \E w \in Widgets : Placement(w, "place")

ChangeColor == \E w \in Widgets, l \in ColorLevels, c \in NewColors : SetColor(w, l, c)

ChangeColorMode == \E w \in Widgets, m \in ColorModes : SetColorMode(w, m)

\* The producers of the UI specification: one thread, single-line messages
\* at the levels whose color the specification changes.
ProduceUI == \E w \in Widgets, l \in ColorLevels : Sink(w, "t1", l, 1)

InitUI == Init

NextUI ==
    \/ ProduceUI
    \/ Poll
    \/ DestroyWidget
    \/ ChangeColor
    \/ ChangeColorMode
    \/ Pack
    \/ Grid
    \/ Place

UISpec == InitUI /\ [][NextUI]_vars

\* The producer of the rendering specification: one thread, messages of one
\* or more lines.
ProduceRender == \E w \in Widgets, l \in RenderLevels, n \in 1..MaxMsgLines : Sink(w, "t1", l, n)

InitRender ==
    /\ InitWidgets({WidgetA}, ColorModes, {FALSE})
    /\ InitLogger
    /\ InitHistory({WidgetA})

NextRender == ProduceRender \/ Poll

RenderSpec == InitRender /\ [][NextRender]_vars

(***************************************************************************)
(* The formatting specification: multi-line messages rendered while the    *)
(* color mode changes.  color_mode is a constructor argument that is not   *)
(* validated, so it may start as a value that is none of the three modes. *)
(***************************************************************************)
OtherMode == "plain"

\* The levels its producer emits at: a name narrower than the level field
\* and a name as wide as it.
FormatLevels == {"INFO", "CRITICAL"}

ProduceFormat == \E w \in Widgets, l \in FormatLevels, n \in 1..MaxMsgLines : Sink(w, "t1", l, n)

InitFormat ==
    /\ InitWidgets({WidgetA}, ColorModes \cup {OtherMode}, {FALSE})
    /\ max_lines[WidgetA] = MaxMaxLines
    /\ InitLogger
    /\ InitHistory({WidgetA})

NextFormat == ProduceFormat \/ Poll \/ ChangeColorMode

FormatSpec == InitFormat /\ [][NextFormat]_vars

(***************************************************************************)
(* The process-wide loggers: loguru's logger and logging.getLogger().      *)
(***************************************************************************)
\* A remove() that leaves the handlers registered.
LoggerRemove_Keep(hs) == hs

\* logger.remove(): every handler is removed.
LoggerRemove(hs) == <<>>

\* logger.add(sink, level=...): one more handler.
LoggerAdd(hs, sink, levelno) == Append(hs, [sink |-> sink, levelno |-> levelno])

\* The number of times loguru calls w's sink for a record of level number no:
\* once per handler of that sink whose level the record reaches.
LoguruReceivers(w, hs, no) ==
    Cardinality({i \in 1..Len(hs) : hs[i].sink = w /\ hs[i].levelno <= no})

\* The number of LoggingInterceptHandler.emit calls that put a standard-logging
\* record of level number no on w's queue: the root logger handles the record
\* when it reaches the root's level and passes it to every handler (a handler's
\* own level is NOTSET).
StdReceivers(w, rhs, rl, no) ==
    IF no >= rl THEN Cardinality({i \in 1..Len(rhs) : rhs[i] = w}) ELSE 0

RECURSIVE PutTimes(_, _, _)
PutTimes(q, rec, k) == IF k = 0 THEN q ELSE PutTimes(SinkPut(q, rec), rec, k - 1)

RECURSIVE AppendTimes(_, _, _)
AppendTimes(q, rec, k) == IF k = 0 THEN q ELSE AppendTimes(Append(q, rec), rec, k - 1)

\* The handlers of the root logger after setup_logger's
\* `if widget.intercept_logging: logging.getLogger().addHandler(...)`.
AddInterceptHandler(rhs, w, intercept) == IF intercept THEN Append(rhs, w) ELSE rhs

\* setup_logger(widget).  loguru's add() defaults to level DEBUG.
SetupLogger(w) ==
    /\ intercept_logging[w] => Len(rootHandlers) < MaxRootHandlers
    /\ handlers' = LoggerAdd(LoggerRemove(handlers), w, LevelNo("DEBUG"))
    /\ rootHandlers' = AddInterceptHandler(rootHandlers, w, intercept_logging[w])
    /\ rootLevel' = IF intercept_logging[w] THEN LevelNo("DEBUG") ELSE rootLevel
    /\ installed' = [installed EXCEPT ![w] = TRUE]
    /\ lastConfigured' = w
    /\ UNCHANGED <<widgetVars, historyButConfigured>>

\* set_logging_level(level): logger.remove(); logger.add(self.sink, level=level).
SetLoggingLevel(w, l) ==
    /\ handlers' = LoggerAdd(LoggerRemove(handlers), w, LevelNo(l))
    /\ lastConfigured' = w
    /\ UNCHANGED <<widgetVars, rootHandlers, rootLevel, historyButConfigured, installed>>

\* A record emitted by thread t: it reaches w's queue k(w) times.
Emit(t, l, n, via, k) ==
    /\ TotalEmitted < MaxRecords
    /\ LET rec == Record(t, emitted[t] + 1, l, n) IN
        /\ queue' = [w \in Widgets |-> PutTimes(queue[w], rec, k[w])]
        /\ enqueued' = [w \in Widgets |-> AppendTimes(enqueued[w], rec, k[w])]
        /\ lastEmitted' = [rec |-> rec, via |-> via]
    /\ emitted' = [emitted EXCEPT ![t] = @ + 1]
    /\ UNCHANGED <<text, tags, pc, timer, isDestroyed, max_lines, color_mode,
                   log_colors, layout_manager, intercept_logging, text_state, malformed>>
    /\ UNCHANGED <<loggerVars, rendered, placements, layoutCalls, installed, cycle, lastConfigured, levelTrail>>

\* logger.<level>(message) on thread t.
LoguruLog(t, l, n) ==
    Emit(t, l, n, "loguru", [w \in Widgets |-> LoguruReceivers(w, handlers, LevelNo(l))])

\* logging.<level>(message) on thread t.
StdLog(t, l, n) ==
    Emit(t, l, n, "logging",
         [w \in Widgets |-> StdReceivers(w, rootHandlers, rootLevel, LevelNo(l))])

Setup == \E w \in Widgets : SetupLogger(w)

ChangeLevel == \E w \in Widgets, l \in LevelNames : SetLoggingLevel(w, l)

LogLoguru == \E l \in LevelNames : LoguruLog("t1", l, 1)

LogStd == \E l \in StdLevelNames : StdLog("t1", l, 1)

InitLoggerSpec ==
    /\ InitWidgets({WidgetA}, {"level"}, BOOLEAN)
    /\ InitLogger
    /\ InitHistory({WidgetA})

NextLogger == Setup \/ ChangeLevel \/ LogLoguru \/ LogStd

LoggerSpec == InitLoggerSpec /\ [][NextLogger]_vars

(***************************************************************************)
(* The threshold read back: get_logging_level() reads loguru's             *)
(* logger._core.min_level, which loguru keeps as the minimum of the levels *)
(* of all registered handlers, float("inf") when there is none.            *)
(***************************************************************************)
\* The smallest level number of a non-empty sequence of handlers.
LowestLevelNo(hs) ==
    CHOOSE n \in {hs[i].levelno : i \in 1..Len(hs)} : \A j \in 1..Len(hs) : hs[j].levelno >= n

\* A min_level that is the level of the handler added last.
min_level_OfLastAdded(hs) ==
    IF hs = <<>> THEN [inf |-> TRUE, no |-> 0] ELSE [inf |-> FALSE, no |-> hs[Len(hs)].levelno]

\* logger._core.min_level.
min_level(hs) ==
    IF hs = <<>> THEN [inf |-> TRUE, no |-> 0] ELSE [inf |-> FALSE, no |-> LowestLevelNo(hs)]

\* get_logging_level(): LEVEL_NO_TO_NAME.get(min_level, "INFO").
get_logging_level(hs) ==
    LET current_level_no == min_level(hs) IN
    IF ~current_level_no.inf /\ current_level_no.no \in DOMAIN LEVEL_NO_TO_NAME
    THEN LEVEL_NO_TO_NAME[current_level_no.no]
    ELSE "INFO"

\* The levels other handlers are added with: DEBUG, as the examples'
\* logger.add(sys.stdout, level="DEBUG"), and a number between DEBUG and INFO.
OtherLevelNos == {10, 15}

OtherHandlers(hs) == {i \in 1..Len(hs) : hs[i].sink \notin Widgets}

\* logger.add(sys.stdout, level=...) by the application.
AddOtherHandler(no) ==
    /\ Cardinality(OtherHandlers(handlers)) < MaxOtherHandlers
    /\ handlers' = LoggerAdd(handlers, "stdout", no)
    /\ UNCHANGED <<widgetVars, rootHandlers, rootLevel, historyVars>>

\* logger.remove() by the application.
RemoveHandlers ==
    /\ handlers # <<>>
    /\ handlers' = LoggerRemove(handlers)
    /\ UNCHANGED <<widgetVars, rootHandlers, rootLevel, historyVars>>

AddOther == \E no \in OtherLevelNos : AddOtherHandler(no)

InitLevel == Init

NextLevel == ChangeLevel \/ AddOther \/ RemoveHandlers

LevelSpec == InitLevel /\ [][NextLevel]_vars

(***************************************************************************)
(* Two widgets in one process: both are configured through the one         *)
(* process-wide loguru logger.                                             *)
(***************************************************************************)
InitTwoWidgets ==
    /\ InitWidgets({WidgetA, WidgetB}, {"level"}, {FALSE})
    /\ max_lines[WidgetA] = MaxMaxLines
    /\ max_lines[WidgetB] = MaxMaxLines
    /\ InitLogger
    /\ InitHistory({WidgetA, WidgetB})

\* The thresholds set and the levels logged at in this specification: INFO
\* passes DEBUG only, ERROR passes both thresholds.
TwoWidgetThresholds == {"DEBUG", "WARNING"}
TwoWidgetLevels == {"INFO", "ERROR"}

ChangeLevelOfEither == \E w \in Widgets, l \in TwoWidgetThresholds : SetLoggingLevel(w, l)

LogToEither == \E l \in TwoWidgetLevels : LoguruLog("t1", l, 1)

NextTwoWidgets == Setup \/ ChangeLevelOfEither \/ LogToEither

TwoWidgetSpec == InitTwoWidgets /\ [][NextTwoWidgets]_vars

(***************************************************************************)
(* The example applications.  Their start-up constructs the widget, calls  *)
(* setup_logger and (except the ttkbootstrap example) adds a console       *)
(* handler at DEBUG; afterwards only the button callbacks run.  The only   *)
(* callback that changes the loggers is change_log_level.                  *)
(***************************************************************************)
\* LEVELS.index(level), counted from 0 as in Python.
LevelIndex(level) == (CHOOSE i \in 1..Len(LEVELS) : LEVELS[i] = level) - 1

\* A step to the next level that stops at the last one.
new_level_NoWrap(level) ==
    LEVELS[(IF LevelIndex(level) + 1 < Len(LEVELS) THEN LevelIndex(level) + 1
            ELSE LevelIndex(level)) + 1]

\* new_index = (current_index + 1) % len(LEVELS); new_level = LEVELS[new_index].
new_level_of(level) == LEVELS[((LevelIndex(level) + 1) % Len(LEVELS)) + 1]

\* Start-up of an example: setup_logger(log_widget), then
\* logger.add(sys.stdout, level="DEBUG") when the example has a console handler.
ExampleStartup(w, console) ==
    /\ ~installed[w]
    /\ LET hs == LoggerAdd(LoggerRemove(handlers), w, LevelNo("DEBUG"))
           started == IF console THEN LoggerAdd(hs, "stdout", LevelNo("DEBUG")) ELSE hs
       IN  /\ handlers' = started
           /\ levelTrail' = <<get_logging_level(started)>>
    /\ rootHandlers' = AddInterceptHandler(rootHandlers, w, intercept_logging[w])
    /\ rootLevel' = IF intercept_logging[w] THEN LevelNo("DEBUG") ELSE rootLevel
    /\ installed' = [installed EXCEPT ![w] = TRUE]
    /\ lastConfigured' = w
    /\ UNCHANGED <<widgetVars, enqueued, rendered, emitted, lastEmitted, placements,
                   layoutCalls, cycle>>

\* change_log_level(): read the current level, set the next one, and log the
\* announcement at the new level (getattr(logger, new_level.lower()) in the
\* module's example and the ttkbootstrap example, logger.log(new_level, ...)
\* in the grid and pack examples).
ChangeLogLevel(w) ==
    /\ installed[w]
    /\ UiIdle
    /\ ~isDestroyed[w]
    /\ Len(levelTrail) <= MaxLevelChanges
    /\ LET current_level == get_logging_level(handlers)
           new_level == new_level_of(current_level)
           hs == LoggerAdd(LoggerRemove(handlers), w, LevelNo(new_level))
           rec == Record("t1", emitted["t1"] + 1, new_level, 1)
       IN  /\ handlers' = hs
           /\ queue' = [v \in Widgets |->
                          PutTimes(queue[v], rec, LoguruReceivers(v, hs, LevelNo(new_level)))]
           /\ enqueued' = [v \in Widgets |->
                          AppendTimes(enqueued[v], rec, LoguruReceivers(v, hs, LevelNo(new_level)))]
           /\ lastEmitted' = [rec |-> rec, via |-> "loguru"]
           /\ levelTrail' = Append(levelTrail, new_level)
    /\ emitted' = [emitted EXCEPT !["t1"] = @ + 1]
    /\ lastConfigured' = w
    /\ UNCHANGED <<text, tags, pc, timer, isDestroyed, max_lines, color_mode,
                   log_colors, layout_manager, intercept_logging, text_state, malformed>>
    /\ UNCHANGED <<rootHandlers, rootLevel, rendered, placements, layoutCalls, installed, cycle>>

StartExample == \E w \in Widgets, console \in BOOLEAN : ExampleStartup(w, console)

PressChangeLogLevel == \E w \in Widgets : ChangeLogLevel(w)

InitExample ==
    /\ InitWidgets({WidgetA}, {"level"}, BOOLEAN)
    /\ max_lines[WidgetA] = MaxMaxLines
    /\ InitLogger
    /\ InitHistory({WidgetA})

NextExample == StartExample \/ PressChangeLogLevel \/ Poll

ExampleSpec == InitExample /\ [][NextExample]_vars

(***************************************************************************)
(* Properties.                                                             *)
(***************************************************************************)
IsPrefix(a, b) == Len(a) <= Len(b) /\ \A i \in 1..Len(a) : a[i] = b[i]

NoDuplicates(a) == \A i, j \in 1..Len(a) : i # j => a[i] # a[j]

\* Records of one thread appear in the order the thread emitted them.
InEmissionOrder(a) ==
    \A i, j \in 1..Len(a) : (i < j /\ a[i].thread = a[j].thread) => a[i].seq < a[j].seq

\* The records of the lines a text buffer holds.
TextRecords(txt) == [i \in 1..Len(txt) |-> txt[i].rec]

LastN(a, n) == SubSeq(a, Len(a) - n + 1, Len(a))

SingleLine(a) == \A i \in 1..Len(a) : a[i].lines = 1

ProducersDone == TotalEmitted = MaxRecords

\* C1: the records rendered so far are a prefix of the records in the order
\* they were put on the queue: none is rendered twice, the records of one
\* producer are rendered in its emission order, and the records of different
\* producers in enqueue order.
C1_RenderedIsPrefixOfEnqueued ==
    \A w \in Widgets :
        /\ IsPrefix(rendered[w], enqueued[w])
        /\ NoDuplicates(rendered[w])
        /\ InEmissionOrder(rendered[w])

\* Three records of two threads have been rendered, the second thread's first.
C1_Witness ==
    /\ Len(rendered[WidgetA]) = MaxRecords
    /\ rendered[WidgetA][1].thread = "t2"
    /\ rendered[WidgetA][2].thread = "t1"
    /\ rendered[WidgetA][3].thread = "t2"

\* C2: on a widget that is never destroyed, once the producers have put their
\* N records, every record is eventually rendered exactly once: the rendered
\* records are the N enqueued ones and the queue is empty, from then on.
C2_EveryRecordRenderedOnce ==
    \/ <>(\E w \in Widgets : isDestroyed[w])
    \/ ProducersDone ~>
          [](\A w \in Widgets : /\ queue[w] = <<>>
                                /\ rendered[w] = enqueued[w]
                                /\ NoDuplicates(rendered[w])
                                /\ Len(rendered[w]) = MaxRecords)

\* All N records of both threads rendered by more than one drain cycle, the
\* widget live and waiting for its next timer.
C2_Witness ==
    /\ ProducersDone
    /\ ~isDestroyed[WidgetA]
    /\ pc[WidgetA] = "idle"
    /\ timer[WidgetA] = 1
    /\ queue[WidgetA] = <<>>
    /\ Len(rendered[WidgetA]) = MaxRecords
    /\ \E i, j \in 1..MaxRecords : rendered[WidgetA][i].thread # rendered[WidgetA][j].thread

\* C3: after a drain that rendered more single-line records than fit, the
\* buffer holds exactly the max_lines most recently rendered records, in
\* order.
C3_BufferHoldsNewestMaxLines ==
    \A w \in Widgets :
        (pc[w] = "idle" /\ SingleLine(rendered[w]) /\ Len(rendered[w]) > max_lines[w])
            => TextRecords(text[w]) = LastN(rendered[w], max_lines[w])

\* C4: after every update_widget call the buffer holds at most max_lines
\* lines, whatever the number of lines of the record, and between the
\* insertion and the trim it exceeds max_lines by at most one line.
C4_BufferWithinMaxLines ==
    \A w \in Widgets :
        /\ Len(text[w]) <= max_lines[w]
        /\ (pc[w] = "drain" /\ queue[w] # <<>>)
              => Len(TextInsert(text[w], color_mode[w], Head(queue[w]))) <= max_lines[w] + 1

\* C6: once the widget is marked destroyed no check_queue timer is scheduled
\* any more (the pending ones only run off, also when the flag is set while a
\* drain is running), and eventually none is pending and check_queue is not
\* running, for ever.
C6_PollLoopStopsAfterDestroy ==
    /\ [][\A w \in Widgets : isDestroyed[w] => timer'[w] <= timer[w]]_vars
    /\ isDestroyed[WidgetA] ~> [](timer[WidgetA] = 0 /\ pc[WidgetA] = "idle")

\* The widget was destroyed after a drain and its last timer has run off: the
\* records put since that drain stay in the queue.
C6_Witness ==
    /\ isDestroyed[WidgetA]
    /\ timer[WidgetA] = 0
    /\ pc[WidgetA] = "idle"
    /\ rendered[WidgetA] # <<>>
    /\ queue[WidgetA] # <<>>

\* C7: a sink() call after the widget has been destroyed leaves the widget's
\* state, the contents of its queue included, unchanged.
C7_SinkAfterDestroyIsNoOp ==
    [][\A w \in Widgets :
          (isDestroyed[w] /\ emitted' # emitted)
              => /\ queue'[w] = queue[w]
                 /\ text'[w] = text[w]
                 /\ isDestroyed'[w]]_vars

\* The loguru handler of w's sink is registered, and its level number.
Registered(w) == \E i \in 1..Len(handlers) : handlers[i].sink = w

HandlerLevel(w) ==
    LET i == CHOOSE j \in 1..Len(handlers) : handlers[j].sink = w IN handlers[i].levelno

\* The step emits a record through loguru or the standard logging module.
Emits == lastEmitted' # lastEmitted

\* The emitted record comes by an ingestion path the widget has.
ByPathOf(w) ==
    \/ lastEmitted'.via = "loguru"
    \/ lastEmitted'.via = "logging" /\ intercept_logging[w]

\* C5: with the widget installed by setup_logger and its threshold at L, an
\* emitted record below L is not put on the widget's queue, by either path,
\* and a record at or above L is.
C5_ThresholdFiltersEveryPath ==
    [][\A w \in Widgets :
          (installed[w] /\ Registered(w) /\ Emits)
              => LET no == LevelNo(lastEmitted'.rec.level) IN
                    /\ no < HandlerLevel(w) => enqueued'[w] = enqueued[w]
                    /\ (no >= HandlerLevel(w) /\ ByPathOf(w))
                          => Len(enqueued'[w]) > Len(enqueued[w])]_vars

\* C8: a sink() call is possible in any widget state (it waits for nothing),
\* appends exactly one record, that of the calling thread, to the tail of the
\* queue and changes nothing else of the widget; set_color, a color_mode
\* change and the placement calls leave the queue unchanged.
C8_SinkTouchesOnlyQueue ==
    /\ [](TotalEmitted < MaxRecords => ENABLED ProduceUI)
    /\ [][\A w \in Widgets :
          /\ (emitted' # emitted)
                => /\ Len(queue'[w]) = Len(queue[w]) + 1
                   /\ SubSeq(queue'[w], 1, Len(queue[w])) = queue[w]
                   /\ LET rec == queue'[w][Len(queue'[w])] IN
                         /\ rec.level \in LevelNames
                         /\ emitted'[rec.thread] = emitted[rec.thread] + 1
                         /\ rec.seq = emitted'[rec.thread]
                   /\ UNCHANGED <<text, tags, log_colors, color_mode, layout_manager,
                                  isDestroyed, pc, timer, max_lines>>
          /\ (log_colors' # log_colors \/ color_mode' # color_mode \/ placements' # placements)
                => queue'[w] = queue[w]]_vars

\* sink() was called on a destroyed widget whose queue already held a record,
\* after set_color, a color_mode change and a placement call.
C8_Witness ==
    /\ isDestroyed[WidgetA]
    /\ Len(queue[WidgetA]) >= 2
    /\ text[WidgetA] # <<>>
    /\ log_colors[WidgetA] # DefaultLogColors
    /\ color_mode[WidgetA] = "full"
    /\ layout_manager[WidgetA] = "grid"

\* C9: once setup_logger(widget) has been called, the widget's sink is the only
\* loguru handler, and each emitted record that passes the threshold by a path
\* of the widget is put on the widget's queue exactly once.
C9_EachRecordQueuedOnce ==
    [][\A w \in Widgets :
          (installed[w] /\ Registered(w))
              => /\ \A i \in 1..Len(handlers) : handlers[i].sink = w
                 /\ (Emits /\ LevelNo(lastEmitted'.rec.level) >= HandlerLevel(w) /\ ByPathOf(w))
                       => Len(enqueued'[w]) = Len(enqueued[w]) + 1]_vars

\* The strategy the first placement call of a widget stands for.
StrategyOfFirst(calls) == IF calls[1] = "grid" THEN "grid" ELSE "pack"

\* C10: the child-layout strategy is that of the first placement call (pack
\* for pack() or place(), grid for grid()), the children are laid out exactly
\* once, and later placement calls change neither.
C10_FirstPlacementDecidesLayout ==
    \A w \in Widgets :
        IF placements[w] = <<>>
        THEN layout_manager[w] = "None" /\ layoutCalls[w] = 0
        ELSE layout_manager[w] = StrategyOfFirst(placements[w]) /\ layoutCalls[w] = 1

\* place() came first and grid() after it: the strategy is still pack.
C10_Witness ==
    /\ Len(placements[WidgetA]) = 2
    /\ placements[WidgetA][1] = "place"
    /\ placements[WidgetA][2] = "grid"
    /\ layout_manager[WidgetA] = "pack"
    /\ layoutCalls[WidgetA] = 1

\* The characters of a run of tagged characters.
Chars(run) == [i \in 1..Len(run) |-> run[i].tok]

\* The positions of a run of tagged characters that carry the tag.
TaggedAt(run, tag) == {i \in 1..Len(run) : run[i].tag = tag}

\* The k-th line of '<time> | <level padded to 8> | <message>\n'.
FormattedLine(rec, k) ==
    IF k > 1 THEN <<Tok("line", k), Tok("\n", 0)>>
    ELSE <<Tok("time", rec.seq), Tok(" | ", 0), Tok(rec.level, 0)>>
         \o (IF LevelLen(rec.level) < 8 THEN <<Tok(" ", 8 - LevelLen(rec.level))>> ELSE <<>>)
         \o <<Tok(" | ", 0), Tok("line", 1), Tok("\n", 0)>>

\* The positions of the padded level field and of the message with its
\* newline in the first line of a record.
LevelFieldAt(rec) == IF LevelLen(rec.level) < 8 THEN {3, 4} ELSE {3}
MessageAt(rec) == IF LevelLen(rec.level) < 8 THEN {6, 7} ELSE {5, 6}

\* C11: the characters rendered for a record are those of
\* '<time> | <level padded to 8> | <message>\n' whatever the color mode is
\* or was ('full', 'message', 'level', or any other value, which behaves as
\* 'level'); only the tagged part differs: the whole line, the message with
\* its newline, or the padded level field.  It is stated of the lines in the
\* buffer and of the record check_queue renders next.
C11_SameCharactersInEveryMode ==
    /\ \A w \in Widgets : \A i \in 1..Len(text[w]) :
          LET ln == text[w][i]
              tagged == TaggedAt(ln.chars, ln.rec.level)
          IN  /\ Chars(ln.chars) = FormattedLine(ln.rec, ln.part)
              /\ \A j \in 1..Len(ln.chars) : j \notin tagged => ln.chars[j].tag = ""
              /\ IF ln.part > 1
                  THEN tagged \in {{}, 1..Len(ln.chars)}
                  ELSE tagged \in {1..Len(ln.chars), MessageAt(ln.rec), LevelFieldAt(ln.rec)}
              /\ ln.span = "all" => tagged = 1..Len(ln.chars)
              /\ ln.span = "message" => tagged = MessageAt(ln.rec)
              /\ ln.span = "level" => tagged = LevelFieldAt(ln.rec)
              /\ ln.span = "none" => tagged = {}
    /\ \A w \in Widgets : queue[w] # <<>> =>
          LET rec == Head(queue[w]) IN
          /\ \A mode \in ColorModes \cup {OtherMode} :
                Chars(Inserts(mode, rec)) = Chars(Inserts("full", rec))
          /\ Inserts(OtherMode, rec) = Inserts("level", rec)

\* The buffer shows the first line of an INFO record (a padded level) that
\* was rendered under 'message', an earlier record was rendered before it,
\* and the mode has been changed to 'full' since.
C11_Witness ==
    /\ color_mode[WidgetA] = "full"
    /\ Len(rendered[WidgetA]) >= 2
    /\ \E i \in 1..Len(text[WidgetA]) :
          /\ text[WidgetA][i].span = "message"
          /\ text[WidgetA][i].part = 1
          /\ text[WidgetA][i].rec.level = "INFO"
          /\ text[WidgetA][i].rec.lines = 2

\* C12: set_color(level, color) affects only the lines rendered after the
\* call: in every step, every line of the buffer that shows its level's tag
\* keeps the foreground and background it was rendered with.
C12_RenderedLinesKeepColor ==
    [][\A w \in Widgets : \A i \in 1..Len(text[w]) :
          text[w][i].span # "none"
              => tags'[w][text[w][i].tag] = tags[w][text[w][i].tag]]_vars

\* The display style a color stands for: a string is a foreground with no
\* background, a pair is a foreground and a background.
StyleOf(color) == [fg |-> color.fg, bg |-> IF color.tuple THEN color.bg ELSE ""]

\* C17: after set_color(level, color) the display style of the level is
\* exactly the given color, whatever was set before, and the styles of the
\* other levels are unchanged.
C17_StyleIsExactlyGivenColor ==
    [][\A w \in Widgets : \A l \in LevelNames :
          IF log_colors'[w][l] # log_colors[w][l]
          THEN tags'[w][l] = StyleOf(log_colors'[w][l])
          ELSE tags'[w][l] = tags[w][l]]_vars

\* The records of a sequence that update_widget can render.
WellFormed(w, a) == SelectSeq(a, LAMBDA r : r \notin malformed[w])

\* C13: a rendering error while check_queue() processes a record does not
\* end the poll loop: while the widget is not destroyed the next check_queue
\* is scheduled, the records still in the queue stay there in order, and
\* (unless the widget is destroyed) later cycles render every well-formed
\* record in the order they were put.
C13_RenderingErrorKeepsPolling ==
    /\ [](\A w \in Widgets :
             /\ (~isDestroyed[w] /\ pc[w] = "idle") => timer[w] >= 1
             /\ IsPrefix(rendered[w], WellFormed(w, enqueued[w]))
             /\ WellFormed(w, enqueued[w]) = rendered[w] \o WellFormed(w, queue[w]))
    /\ \/ <>(\E w \in Widgets : isDestroyed[w])
       \/ ProducersDone ~>
             [](\A w \in Widgets : /\ queue[w] = <<>>
                                   /\ rendered[w] = WellFormed(w, enqueued[w]))

\* A malformed record was taken from the queue and failed, the loop was
\* re-armed, and a record put after it has been rendered by a later cycle.
C13_Witness ==
    /\ ~isDestroyed[WidgetA]
    /\ pc[WidgetA] = "idle"
    /\ timer[WidgetA] = 1
    /\ queue[WidgetA] = <<>>
    /\ \E i, j \in 1..Len(enqueued[WidgetA]) :
          /\ i < j
          /\ enqueued[WidgetA][i] \in malformed[WidgetA]
          /\ enqueued[WidgetA][j] \notin malformed[WidgetA]
          /\ rendered[WidgetA] # <<>>
          /\ rendered[WidgetA][Len(rendered[WidgetA])] = enqueued[WidgetA][j]

\* C19: whenever no update_widget() call is in progress the text area is in
\* the read-only state, also after a render that failed part-way.
C19_TextReadOnlyBetweenRenders ==
    \A w \in Widgets : text_state[w] = "disabled"

\* C14: a check_queue() cycle renders at most as many records as were in
\* the queue when it began, also while producers enqueue during the cycle.
C14_CycleBoundedByQueueAtStart ==
    \A w \in Widgets : pc[w] = "drain" => Len(rendered[w]) <= cycle[w]

\* C15: the poll loop is a single chain: at most one check_queue timer is
\* pending, exactly one while the widget is not destroyed and no
\* check_queue() is running, and none while check_queue() is in its drain.
C15_SingleTimerChain ==
    \A w \in Widgets :
        /\ timer[w] \in {0, 1}
        /\ (~isDestroyed[w] /\ pc[w] = "idle") => timer[w] = 1
        /\ pc[w] = "drain" => timer[w] = 0

\* A second cycle is in its drain, with records to render, and no timer is
\* pending.
C15_Witness ==
    /\ pc[WidgetA] = "drain"
    /\ timer[WidgetA] = 0
    /\ ~isDestroyed[WidgetA]
    /\ rendered[WidgetA] # <<>>
    /\ cycle[WidgetA] = Len(rendered[WidgetA]) + Len(queue[WidgetA])
    /\ queue[WidgetA] # <<>>

\* C18: once the widget is destroyed and no check_queue() is running,
\* update_widget is not called again: the display buffer and the rendered
\* records never change, no drain starts, and the queue only grows.
C18_NothingRenderedAfterDestroy ==
    [][\A w \in Widgets :
          (isDestroyed[w] /\ pc[w] = "idle")
              => /\ text'[w] = text[w]
                 /\ rendered'[w] = rendered[w]
                 /\ pc'[w] = "idle"
                 /\ IsPrefix(queue[w], queue'[w])]_vars

\* The widget was destroyed with one record rendered; every record put
\* since is still in the queue after the last timer has run off.
C18_Witness ==
    /\ isDestroyed[WidgetA]
    /\ pc[WidgetA] = "idle"
    /\ timer[WidgetA] = 0
    /\ ProducersDone
    /\ Len(rendered[WidgetA]) = 1
    /\ Len(queue[WidgetA]) = MaxRecords - 1

\* The level numbers of the registered handlers.
Thresholds == {handlers[i].levelno : i \in 1..Len(handlers)}

\* C16: get_logging_level() directly after set_logging_level(L) returns L,
\* for each of the seven levels; with other handlers registered it returns
\* the name of the lowest threshold over all handlers; and it returns INFO
\* when that threshold is none of the seven level numbers or no handler is
\* registered.
C16_LevelReadBack ==
    /\ [][\A l \in LevelNames :
             SetLoggingLevel(WidgetA, l) => get_logging_level(handlers') = l]_vars
    /\ [](IF \E n \in Thresholds : (\A k \in Thresholds : n <= k) /\ n \in {5, 10, 20, 25, 30, 40, 50}
          THEN \E n \in Thresholds :
                  /\ \A k \in Thresholds : n <= k
                  /\ LevelNo(get_logging_level(handlers)) = n
          ELSE get_logging_level(handlers) = "INFO")

\* The widget's threshold is CRITICAL and a handler was added after it at
\* DEBUG: the level read back is DEBUG.
C16_Witness ==
    /\ Len(handlers) = 2
    /\ handlers[1] = [sink |-> WidgetA, levelno |-> 50]
    /\ handlers[2] = [sink |-> "stdout", levelno |-> 10]
    /\ get_logging_level(handlers) = "DEBUG"

\* The handlers of loguru's logger that are sinks of widgets.
WidgetHandlers == {i \in 1..Len(handlers) : handlers[i].sink \in Widgets}

\* C20: with two widgets, after any sequence of setup_logger and
\* set_logging_level calls at most one widget's sink is registered, that of
\* the widget of the most recent call, so a loguru record reaches only that
\* widget's queue (and reaches it when it passes the threshold).
C20_LastConfiguredWidgetOnly ==
    /\ [](/\ Cardinality(WidgetHandlers) <= 1
          /\ \A w \in Widgets : Registered(w) <=> w = lastConfigured)
    /\ [][Emits =>
            \A w \in Widgets :
                IF w = lastConfigured /\ LevelNo(lastEmitted'.rec.level) >= HandlerLevel(w)
                THEN enqueued'[w] = Append(enqueued[w], lastEmitted'.rec)
                     /\ queue'[w] = Append(queue[w], lastEmitted'.rec)
                ELSE enqueued'[w] = enqueued[w] /\ queue'[w] = queue[w]]_vars

\* A was set up and received a record; then B was configured and the record
\* logged after that went to B's queue only.
C20_Witness ==
    /\ installed[WidgetA]
    /\ lastConfigured = WidgetB
    /\ Len(queue[WidgetA]) = 1
    /\ Len(queue[WidgetB]) = 1
    /\ queue[WidgetA][1].seq < queue[WidgetB][1].seq
    /\ handlers = <<[sink |-> WidgetB, levelno |-> 30]>>

\* The next level of TRACE < DEBUG < INFO < SUCCESS < WARNING < ERROR <
\* CRITICAL, with CRITICAL followed by TRACE.
LevelAfter(l) ==
    CASE l = "TRACE" -> "DEBUG"
      [] l = "DEBUG" -> "INFO"
      [] l = "INFO" -> "SUCCESS"
      [] l = "SUCCESS" -> "WARNING"
      [] l = "WARNING" -> "ERROR"
      [] l = "ERROR" -> "CRITICAL"
      [] l = "CRITICAL" -> "TRACE"

\* The step is an invocation of change_log_level.
ChangesLogLevel == levelTrail # <<>> /\ levelTrail' # levelTrail

\* C21: from every logger state the examples reach, change_log_level sets
\* the widget's threshold to the level after its current one (CRITICAL is
\* followed by TRACE) and emits its announcement at exactly the new level,
\* so the announcement is put on the widget's queue; the level read back is
\* the threshold set, and seven consecutive invocations return the
\* threshold to the level they started from.
C21_ChangeLogLevelCycles ==
    /\ [][ChangesLogLevel =>
            LET new == LevelAfter(LEVEL_NO_TO_NAME[HandlerLevel(WidgetA)]) IN
            /\ handlers' = <<[sink |-> WidgetA, levelno |-> LevelNo(new)]>>
            /\ lastEmitted' # lastEmitted
            /\ lastEmitted'.rec.level = new
            /\ enqueued'[WidgetA] = Append(enqueued[WidgetA], lastEmitted'.rec)
            /\ queue'[WidgetA] = Append(queue[WidgetA], lastEmitted'.rec)]_vars
    /\ [](levelTrail # <<>> =>
            /\ Registered(WidgetA)
            /\ levelTrail[Len(levelTrail)] = LEVEL_NO_TO_NAME[HandlerLevel(WidgetA)]
            /\ levelTrail[Len(levelTrail)] = get_logging_level(handlers)
            /\ \A i \in 1..Len(levelTrail) :
                  i + 7 <= Len(levelTrail) => levelTrail[i + 7] = levelTrail[i])

\* Seven invocations after start-up: the threshold went from DEBUG up to
\* CRITICAL, wrapped to TRACE and is DEBUG again; every announcement was put
\* on the queue and the first ones have been rendered.
C21_Witness ==
    /\ Len(levelTrail) = 8
    /\ levelTrail[1] = "DEBUG"
    /\ levelTrail[7] = "TRACE"
    /\ levelTrail[8] = "DEBUG"
    /\ handlers = <<[sink |-> WidgetA, levelno |-> 10]>>
    /\ Len(enqueued[WidgetA]) = 7
    /\ rendered[WidgetA] # <<>>
    /\ queue[WidgetA] # <<>>

====
